---------------------------- MODULE Spec2Model ----------------------------
(***************************************************************************)
(* State-machine model of transcriptor_gui.py: a Tk GUI with three event  *)
(* handlers (seleccionar_archivo, transcribir, encriptar) run by the Tk    *)
(* main loop, and one background thread per transcription (transcribir's  *)
(* inner function run).  A str is a sequence of code points, a bytes       *)
(* object a sequence of octets.  Every Tk call is one atomic step (calls   *)
(* into the interpreter are serialised); a thread can be pre-empted        *)
(* between any two of them.  The program keeps no reference to a thread    *)
(* it started, so the live threads are a bag of thread states.             *)
(***************************************************************************)
EXTENDS Integers, Sequences, FiniteSets, Bags, TLC

(***************************************************************************)
(* Bounds of the model.                                                    *)
(***************************************************************************)
\* Number of threading.Thread objects that exist at the same time.
MaxWorkers == 2

(***************************************************************************)
(* Program constants.                                                      *)
(***************************************************************************)
\* raw[:3000]
PreviewLimit == 3000

\* selected_file = None
None == "None"

(***************************************************************************)
(* Environment: the file system, the file dialog, the remote service.      *)
(***************************************************************************)
\* Paths the file dialog can return.  The extension filter is advisory.
FileNames == {"zeros.wav", "empty.mp3", "big.m4a", "locked.ogg"}

\* What open(path, "rb") does: it raises for a file that cannot be read.
Readable(path) == path # "locked.ogg"

\* The octets of each file on the disk: ten zero octets, none, and one octet
\* more than the preview holds.
Disk ==
    [path \in FileNames |->
        CASE path = "zeros.wav" -> [i \in 1..10 |-> 0]
          [] path = "empty.mp3" -> << >>
          [] path = "big.m4a"   -> [i \in 1..(PreviewLimit + 1) |-> (i * 7) % 256]
          [] OTHER              -> << >>]

\* f.read(): the octets of the file.
Content(path) == Disk[path]

\* filedialog.askopenfilename returns the path, or "" when cancelled.
DialogResults == FileNames \cup {""}

\* result.text values the service can return: "hi" and " ".
Texts == { <<104, 105>>, <<32>> }

\* The object client.audio.transcriptions.create returns; one without a
\* text attribute is a malformed response.
Responses ==
    [has_text : {TRUE}, text : Texts] \cup {[has_text |-> FALSE, text |-> << >>]}

NoResponse == [has_text |-> FALSE, text |-> << >>]

\* str(e) of the exceptions the service call raises.
ServiceErrors == {"rate limit exceeded"}

OpenError == "[Errno 13] Permission denied"

AttributeError == "object has no attribute 'text'"

\* Keys Fernet.generate_key() can draw.
Keys == {1, 2}

(***************************************************************************)
(* Message boxes.                                                          *)
(***************************************************************************)
NoBox == [kind |-> "none", title |-> "", message |-> ""]

showerror(title, message) ==
    [kind |-> "showerror", title |-> title, message |-> message]

showinfo(title, message) ==
    [kind |-> "showinfo", title |-> title, message |-> message]

(***************************************************************************)
(* Pure functions.                                                         *)
(***************************************************************************)
Min(a, b) == IF a <= b THEN a ELSE b

\* raw[:3000]
Slice(raw, n) == SubSeq(raw, 1, Min(Len(raw), n))

\* Mutant of Latin1Decode: bytes.decode('ascii', 'replace'), which turns
\* every octet above 127 into U+FFFD.
AsciiDecodeReplace(raw) ==
    [i \in 1..Len(raw) |-> IF raw[i] < 128 THEN raw[i] ELSE 65533]

\* bytes.decode('latin-1'): octet n becomes the character U+00nn.
Latin1Decode(raw) == [i \in 1..Len(raw) |-> CASE raw[i] \in 0..255 -> raw[i]]

\* Characters str.isspace() holds of, below U+0100.
Whitespace == {9, 10, 11, 12, 13, 28, 29, 30, 31, 32, 133, 160}

RECURSIVE lstrip(_)
lstrip(s) ==
    IF s # << >> /\ Head(s) \in Whitespace THEN lstrip(Tail(s)) ELSE s

RECURSIVE rstrip(_)
rstrip(s) ==
    IF s # << >> /\ s[Len(s)] \in Whitespace
    THEN rstrip(SubSeq(s, 1, Len(s) - 1))
    ELSE s

\* Mutant of strip: the call to .strip() is missing.
strip_missing(s) == s

\* str.strip()
strip(s) == rstrip(lstrip(s))

\* Text.get("1.0", tk.END): the content and the widget's final newline.
TextGet(widget) == widget \o <<10>>

\* encrypt_text, for the key Fernet.generate_key() drew.  Fernet lives in the
\* cryptography library: its token starts with the version marker ("g" in
\* base64), its body is fixed by the draw and looks random, and of the text it
\* shows only the number of 16-octet cipher blocks the padded text fills.
encrypt_text(text, key) ==
    <<103, 64 + key, 48 + (Len(text) \div 16) + 1, 61>>


\* raw_text of lines 149-153 for every path the dialog can return, computed
\* once: open, f.read(), raw[:3000], decode.
raw_text == [path \in FileNames |-> Latin1Decode(Slice(Content(path), PreviewLimit))]

(***************************************************************************)
(* State.                                                                  *)
(***************************************************************************)
VARIABLES
    selected_file,       \* the global: None or a path
    text_raw,            \* content of the raw-view Text widget
    text_transcripcion,  \* content of the transcription Text widget
    text_encriptado,     \* content of the encrypted Text widget
    progress,            \* the Progressbar: "stopped" or "running"
    threads,             \* bag of the threads started by transcribir
    last                 \* what the user saw of the last step

vars == <<selected_file, text_raw, text_transcripcion, text_encriptado,
          progress, threads, last>>

widgets == <<text_raw, text_transcripcion, text_encriptado, progress>>

\* What the user saw of the last step: the answer the file dialog returned
\* (NoDialog when the step opened none) and the message box it raised.
NoDialog == "no dialog"

Step(dialog, box) == [dialog |-> dialog, box |-> box]

\* A thread: the line of run it executes next, run's locals result and
\* str(e) while they are still read (e is unbound at the end of the except
\* clause, result is last read at line 230), and what this run has done
\* (touched: it has changed text_transcripcion in its try block, kept until
\* the try statement is left; stopped: it has called progress.stop()).
Thread(pc, result, exc, touched, stopped) ==
    [pc |-> pc, result |-> result, exc |-> exc,
     touched |-> touched, stopped |-> stopped]

Live == {t \in BagToSet(threads) : t.pc # "done"}

Finished == {t \in BagToSet(threads) : t.pc = "done"}

\* The bag with one copy of thread t replaced by u.
Replace(t, u) == (threads (-) SetToBag({t})) (+) SetToBag({u})

Init ==
    /\ selected_file = None
    /\ text_raw = << >>
    /\ text_transcripcion = << >>
    /\ text_encriptado = << >>
    /\ progress = "stopped"
    /\ threads = EmptyBag
    /\ last = Step(NoDialog, NoBox)

(***************************************************************************)
(* seleccionar_archivo, on the main thread; file is what the dialog        *)
(* returned.                                                               *)
(***************************************************************************)
\* Mutant of seleccionar: selected_file = file is executed before the test
\* "if file:".
seleccionar_assign_first(file) ==
    /\ selected_file' = file
    /\ IF file # ""
       THEN IF Readable(file)
            THEN /\ text_raw' = << >> \o raw_text[file]
                 /\ last' = Step(file, showinfo("Archivo cargado", file))
            ELSE /\ text_raw' = text_raw
                 /\ last' = Step(file, NoBox)
       ELSE /\ text_raw' = text_raw
            /\ last' = Step(file, NoBox)
    /\ UNCHANGED <<text_transcripcion, text_encriptado, progress, threads>>

seleccionar(file) ==
    IF file # ""
    THEN /\ selected_file' = file
         /\ IF Readable(file)
            THEN \* delete("1.0", END); insert(END, raw_text); showinfo
                 /\ text_raw' = << >> \o raw_text[file]
                 /\ last' = Step(file,
                                 showinfo("Archivo cargado", file))
            ELSE \* open raises and the handler ends there
                 /\ text_raw' = text_raw
                 /\ last' = Step(file, NoBox)
         /\ UNCHANGED <<text_transcripcion, text_encriptado, progress, threads>>
    ELSE /\ last' = Step(file, NoBox)
         /\ UNCHANGED <<selected_file, widgets, threads>>

seleccionar_archivo == \E file \in DialogResults : seleccionar(file)

(***************************************************************************)
(* transcribir, on the main thread: the guard, then Thread(target=run).    *)
(***************************************************************************)
NewThread == Thread("L220", NoResponse, "", FALSE, FALSE)

\* Mutant of transcribir: the guard "if not selected_file" is missing.
transcribir_unguarded ==
    /\ \/ /\ Finished = {}
          /\ BagCardinality(threads) < MaxWorkers
          /\ threads' = threads (+) SetToBag({NewThread})
       \/ \E t \in Finished : threads' = Replace(t, NewThread)
    /\ last' = Step(NoDialog, NoBox)
    /\ UNCHANGED <<selected_file, widgets>>

transcribir ==
    IF selected_file = None
    THEN /\ last' = Step(NoDialog,
                         showerror("Error", "Seleccione un archivo de audio primero"))
         /\ UNCHANGED <<selected_file, widgets, threads>>
    ELSE /\ \/ /\ Finished = {}
               /\ BagCardinality(threads) < MaxWorkers
               /\ threads' = threads (+) SetToBag({NewThread})
            \/ \E t \in Finished : threads' = Replace(t, NewThread)
         /\ last' = Step(NoDialog, NoBox)
         /\ UNCHANGED <<selected_file, widgets>>

(***************************************************************************)
(* run, on its own thread t; one action per line that acts.                *)
(***************************************************************************)
\* line 220: progress.start()
run_L220(t) ==
    /\ t.pc = "L220"
    /\ progress' = "running"
    /\ threads' = Replace(t, [t EXCEPT !.pc = "L223"])
    /\ last' = Step(NoDialog, NoBox)
    /\ UNCHANGED <<selected_file, text_raw, text_transcripcion, text_encriptado>>

\* Mutant of run_L223: the display is cleared before the file is opened
\* (line 229 moved to the top of the try block).
run_L223_clear_first(t) ==
    /\ t.pc = "L223"
    /\ text_transcripcion' = << >>
    /\ IF Readable(selected_file)
       THEN threads' = Replace(t, [t EXCEPT !.pc = "L224", !.touched = TRUE])
       ELSE threads' = Replace(t, [t EXCEPT !.pc = "L233", !.exc = OpenError,
                                              !.touched = TRUE])
    /\ last' = Step(NoDialog, NoBox)
    /\ UNCHANGED <<selected_file, text_raw, text_encriptado, progress>>

\* line 223: open(selected_file, "rb"), the global as it is now; then the
\* request of line 224 is sent.
run_L223(t) ==
    /\ t.pc = "L223"
    /\ IF Readable(selected_file)
       THEN threads' = Replace(t, [t EXCEPT !.pc = "L224"])
       ELSE threads' = Replace(t, [t EXCEPT !.pc = "L233", !.exc = OpenError])
    /\ last' = Step(NoDialog, NoBox)
    /\ UNCHANGED <<selected_file, widgets>>

\* lines 224-227: the call returns a response or raises.
run_L224(t) ==
    /\ t.pc = "L224"
    /\ \/ \E r \in Responses :
            threads' = Replace(t, [t EXCEPT !.pc = "L229", !.result = r])
       \/ \E e \in ServiceErrors :
            threads' = Replace(t, [t EXCEPT !.pc = "L233", !.exc = e])
    /\ last' = Step(NoDialog, NoBox)
    /\ UNCHANGED <<selected_file, widgets>>

\* line 229: text_transcripcion.delete("1.0", tk.END)
run_L229(t) ==
    /\ t.pc = "L229"
    /\ text_transcripcion' = << >>
    /\ threads' = Replace(t, [t EXCEPT !.pc = "L230", !.touched = TRUE])
    /\ last' = Step(NoDialog, NoBox)
    /\ UNCHANGED <<selected_file, text_raw, text_encriptado, progress>>

\* line 230: text_transcripcion.insert(tk.END, result.text); evaluating
\* result.text raises when the response has no such attribute.
run_L230(t) ==
    /\ t.pc = "L230"
    /\ IF t.result.has_text
       THEN /\ text_transcripcion' = text_transcripcion \o t.result.text
            /\ threads' = Replace(t, Thread("L235", NoResponse, "", FALSE, FALSE))
       ELSE /\ text_transcripcion' = text_transcripcion
            /\ threads' = Replace(t, [t EXCEPT !.pc = "L233", !.exc = AttributeError])
    /\ last' = Step(NoDialog, NoBox)
    /\ UNCHANGED <<selected_file, text_raw, text_encriptado, progress>>

\* Mutant of run_L233: the except clause returns after the message box, so
\* line 235 is not reached on the failure paths.
run_L233_return(t) ==
    /\ t.pc = "L233"
    /\ threads' = Replace(t, Thread("done", NoResponse, "", FALSE, FALSE))
    /\ last' = Step(NoDialog, showerror("Error", t.exc))
    /\ UNCHANGED <<selected_file, widgets>>

\* lines 232-233: except Exception as e: messagebox.showerror("Error", str(e))
run_L233(t) ==
    /\ t.pc = "L233"
    /\ threads' = Replace(t, Thread("L235", NoResponse, "", FALSE, FALSE))
    /\ last' = Step(NoDialog, showerror("Error", t.exc))
    /\ UNCHANGED <<selected_file, widgets>>

\* line 235: progress.stop(); run returns.
run_L235(t) ==
    /\ t.pc = "L235"
    /\ progress' = "stopped"
    /\ threads' = Replace(t, Thread("done", NoResponse, "", FALSE, TRUE))
    /\ last' = Step(NoDialog, NoBox)
    /\ UNCHANGED <<selected_file, text_raw, text_transcripcion, text_encriptado>>

run(t) ==
    \/ run_L220(t)
    \/ run_L223(t)
    \/ run_L224(t)
    \/ run_L229(t)
    \/ run_L230(t)
    \/ run_L233(t)
    \/ run_L235(t)

(***************************************************************************)
(* encriptar, on the main thread.                                          *)
(***************************************************************************)
encriptar ==
    LET contenido == strip(TextGet(text_transcripcion))
    IN  IF contenido = << >>
        THEN /\ last' = Step(NoDialog,
                             showerror("Error", "No hay texto transcrito para encriptar"))
             /\ UNCHANGED <<selected_file, widgets, threads>>
        ELSE /\ \E key \in Keys :
                    text_encriptado' = << >> \o encrypt_text(contenido, key)
             /\ last' = Step(NoDialog, NoBox)
             /\ UNCHANGED <<selected_file, text_raw, text_transcripcion,
                            progress, threads>>

(***************************************************************************)
(* The program.                                                            *)
(***************************************************************************)
Next ==
    \/ seleccionar_archivo
    \/ transcribir
    \/ encriptar
    \/ \E t \in Live : run_L220(t)
    \/ \E t \in Live : run_L223(t)
    \/ \E t \in Live : run_L224(t)
    \/ \E t \in Live : run_L229(t)
    \/ \E t \in Live : run_L230(t)
    \/ \E t \in Live : run_L233(t)
    \/ \E t \in Live : run_L235(t)

Spec == Init /\ [][Next]_vars

(***************************************************************************)
(* Claims.  A step "of" a handler or of a line of run is a step that       *)
(* satisfies that action; what the step must do is stated on the variables.*)
(***************************************************************************)
SelectFirst == showerror("Error", "Seleccione un archivo de audio primero")

NothingToEncrypt == showerror("Error", "No hay texto transcrito para encriptar")

\* C1: whenever selected_file is unset, a transcribir step raises the
\* "select a file first" error box, starts no thread (so no request is
\* sent: only a thread sends one), and leaves selected_file, the progress
\* bar and the three displays unchanged.
C1_NoFileNoCall ==
    [][(selected_file = None /\ transcribir) =>
          /\ last'.box = SelectFirst
          /\ threads' = threads
          /\ selected_file' = selected_file
          /\ progress' = progress
          /\ text_raw' = text_raw
          /\ text_transcripcion' = text_transcripcion
          /\ text_encriptado' = text_encriptado]_vars

\* C1 witness: transcribir has just refused with selected_file unset; no
\* thread exists.
C1_Witness ==
    /\ selected_file = None
    /\ last.box = SelectFirst
    /\ threads = EmptyBag

\* Position of a line in run: every step of run moves forward.
Rank(pc) ==
    CASE pc = "L220" -> 1
      [] pc = "L223" -> 2
      [] pc = "L224" -> 3
      [] pc = "L229" -> 4
      [] pc = "L230" -> 5
      [] pc = "L233" -> 6
      [] pc = "L235" -> 7
      [] pc = "done" -> 8

\* C2: no exit path of run skips progress.stop().  A thread that has
\* finished has called progress.stop(); a thread that has not finished can
\* always take its next step (no line of run waits for another thread);
\* every step of run moves the thread forward in run, so the thread reaches
\* line 235 after finitely many of its own steps, on the success path and on
\* the three failure paths; and the step of line 235 leaves the bar stopped.
C2_StopOnEveryPath ==
    /\ [](\A t \in BagToSet(threads) :
            /\ t.pc = "done" => t.stopped
            /\ t.pc # "done" => ENABLED run(t))
    /\ [][\A t \in Live : run(t) =>
            \E u \in BagToSet(threads') :
                /\ threads' = Replace(t, u)
                /\ Rank(u.pc) > Rank(t.pc)
                /\ u.pc = "done" => (u.stopped /\ progress' = "stopped")]_vars

\* C2 witness: a thread has finished and stopped the bar while another one
\* is in its except clause.
C2_Witness ==
    /\ progress = "stopped"
    /\ \E t \in BagToSet(threads) : t.pc = "done" /\ t.stopped
    /\ \E t \in BagToSet(threads) : t.pc = "L233"

\* C3 as claimed: a thread that ends in the error path (it is in the except
\* clause) has not cleared or rewritten the transcription display.
C3_ErrorLeavesDisplay ==
    \A t \in BagToSet(threads) : t.pc = "L233" => ~t.touched

\* C3 amended: a thread that failed to open the file or whose remote call
\* raised has not changed the transcription display; the only failure that
\* comes after the display was cleared is a response without a text
\* attribute; and in every case the step of the except clause shows str(e)
\* in an error box and leaves the display as it is.
C3_Amended ==
    /\ [](\A t \in BagToSet(threads) : t.pc = "L233" =>
            /\ t.exc \in {"[Errno 13] Permission denied", "rate limit exceeded"}
                   => ~t.touched
            /\ t.touched => (t.exc = AttributeError /\ ~t.result.has_text))
    /\ [][\A t \in Live : (t.pc = "L233" /\ run(t)) =>
            /\ last'.box = showerror("Error", t.exc)
            /\ t.exc # ""
            /\ text_transcripcion' = text_transcripcion]_vars

\* C3 witness: the remote call raised "rate limit exceeded", the box shows
\* it, and the display still holds an earlier transcription.
C3_Witness ==
    /\ last.box = showerror("Error", "rate limit exceeded")
    /\ text_transcripcion = <<104, 105>>

\* C4 as claimed: the step of line 230 of a thread whose call succeeded
\* leaves the transcription display equal to exactly that thread's text,
\* under every interleaving (so after the last write the display is the last
\* writer's text and never a concatenation of two texts).
C4_LastWriteWins ==
    [][\A t \in Live : (t.pc = "L230" /\ t.result.has_text /\ run(t)) =>
          text_transcripcion' = t.result.text]_vars

\* C5: not stated.  That two invocations draw different keys holds with
\* overwhelming probability, not in every behaviour; that no key can be
\* derived from the state is a secrecy property of Fernet.

\* What C6 says the raw view shows for a file of L octets: min(L, 3000)
\* characters, the i-th having the i-th octet of the file as code point.
RawPreview ==
    [path \in FileNames |->
        LET L == Len(Content(path))
        IN  [i \in 1..(IF L <= 3000 THEN L ELSE 3000) |-> Content(path)[i]]]

\* C6: a seleccionar_archivo step whose dialog returned a readable file of
\* length L leaves selected_file equal to the path and the raw view equal to
\* a string of min(L, 3000) characters whose i-th character has the i-th
\* octet of the file as code point, whatever the raw view held before.
C6_RawPreview ==
    [][\A file \in FileNames :
          (last'.dialog = file /\ Readable(file) /\ seleccionar(file)) =>
              /\ selected_file' = file
              /\ text_raw' = RawPreview[file]]_vars

\* C6 witness: a file longer than 3000 octets has been picked while the raw
\* view held something else; the view holds exactly 3000 characters.
C6_Witness ==
    /\ last.dialog = "big.m4a"
    /\ last.box = showinfo("Archivo cargado", "big.m4a")
    /\ selected_file = "big.m4a"
    /\ Len(text_raw) = 3000
    /\ text_raw[200] = 120

\* C7: a seleccionar_archivo step whose dialog was cancelled leaves
\* selected_file and the three displays unchanged and raises no box.
C7_CancelChangesNothing ==
    [][seleccionar("") =>
          /\ selected_file' = selected_file
          /\ text_raw' = text_raw
          /\ text_transcripcion' = text_transcripcion
          /\ text_encriptado' = text_encriptado
          /\ last'.box = NoBox]_vars

\* C7 witness: the dialog has just been cancelled with a file selected
\* earlier and all three displays filled.
C7_Witness ==
    /\ last.dialog = ""
    /\ selected_file = "zeros.wav"
    /\ text_raw # << >>
    /\ text_transcripcion # << >>
    /\ text_encriptado # << >>

\* The transcription display is empty or holds only whitespace.
IsBlank(s) == \A i \in 1..Len(s) : s[i] \in {9, 10, 11, 12, 13, 32}

\* C8: with an empty or whitespace-only transcription display, an encriptar
\* step raises the "nothing to encrypt" error box and leaves the encrypted
\* display, the transcription display, the raw view and selected_file
\* unchanged.
C8_NothingToEncrypt ==
    [][(IsBlank(text_transcripcion) /\ encriptar) =>
          /\ last'.box = NothingToEncrypt
          /\ text_encriptado' = text_encriptado
          /\ text_transcripcion' = text_transcripcion
          /\ text_raw' = text_raw
          /\ selected_file' = selected_file]_vars

\* C8 witness: encriptar has just refused a display holding one space while
\* the encrypted display holds the ciphertext of an earlier invocation.
C8_Witness ==
    /\ last.box = NothingToEncrypt
    /\ text_transcripcion = <<32>>
    /\ text_encriptado # << >>

\* C9 as claimed: the progress bar is running whenever a request is in
\* flight.
C9_BusyWhileInFlight ==
    (\E t \in Live : t.pc = "L224") => progress = "running"

\* C10 as claimed: every step that changes a widget or raises a message box
\* is a step of the main thread (one of the three handlers); a step of run
\* changes none.
C10_WidgetsOnMainThread ==
    [][(widgets' # widgets \/ last'.box # NoBox) =>
          (seleccionar_archivo \/ transcribir \/ encriptar)]_vars

=============================================================================
